---- MODULE Spec2Model ----
(***************************************************************************)
(* A model of the fan-control tools of this repository:                    *)
(*   - scripts/ec_poke_watch.py: ECPokeWatcher, the EC register probe      *)
(*     (backup in the constructor, run_discovery, test_register);          *)
(*   - alienfan_gui*.py: FanController.set_pwm / set_ec_fan_pwm /          *)
(*     get_ec_fan_pwms, the sysfs and raw-port actuators of the GUI;       *)
(*   - scripts/ec_fan_control*.py: ECAccess (open_port, close_port,        *)
(*     read_port, write_port) and the main() session around it.            *)
(* The raw port device /dev/port is one byte array shared by all of them.  *)
(***************************************************************************)
EXTENDS Integers, Sequences, FiniteSets, TLC

VARIABLES
    \* ---- the hardware -------------------------------------------------
    port,             \* /dev/port: address -> byte now on the device
    orig,             \* the bytes on the device before the probe was constructed
    hw,               \* "any": fans answer arbitrarily; "sim": the simulated bench;
                      \* "denied": /dev/port cannot be opened by this process
    shifted,          \* "sim" only: the fans currently run off their base RPM
    \* ---- ECPokeWatcher (scripts/ec_poke_watch.py) ---------------------
    ec_start, ec_end, stride, duty_cycles,
    pc,               \* position of the probe script
    bk_addr,          \* loop variable of _create_ec_backup
    backup,           \* bytes written to the .ec_backup file, in order
    backup_failed,    \* _create_ec_backup logged "Failed to create EC backup"
    addr,             \* loop variable of run_discovery
    di,               \* index in duty_cycles of the duty under test
    baseline_speeds, current_speeds, final_speeds,
    hits,             \* lines appended to the .hits file: <<addr, duty>>
    discovered_fans,  \* the list run_discovery returns
    attempted,        \* addresses write_ec_reg was called on
    written,          \* addresses write_ec_reg wrote successfully
    dev_opens,        \* which probe operations opened /dev/port so far
    last_write,       \* test_register: its latest write_ec_reg call and the result
    waited,           \* test_register: seconds slept since that call
    tried,            \* the <<addr, duty>> pairs a duty write was attempted for
    not_reversible,   \* addresses with a "NOT REVERSIBLE" line in the log
    \* ---- FanController (alienfan_gui*.py) -----------------------------
    hwmon,            \* /sys/class/hwmon: device -> its fan*_input and pwm* files
    fan_devices,      \* the registry _discover_fan_devices built
    temp_devices,     \* the registry _discover_temp_devices built
    pwm_val,          \* <<device, channel>> -> the value last written to pwm<K>
    gui_call,         \* the last FanController call: request, result, file written?
    gui_accesses,     \* number of raw-port accesses the GUI controller made
    \* ---- AlienwareFanGUI, SensorMonitor, PresetWidget (alienfan_gui*.py)
    toolkit,          \* "qt": alienfan_gui.py; "tk": alienfan_gui_tkinter.py
    controllers,      \* the FanController objects made so far: their registries
    monitor_ctl,      \* index of the controller the SensorMonitor was given
    preset_ctl,       \* index of the controller the preset widget was given
    running,          \* the monitor's running flag
    mon_pc,           \* position of the monitor loop
    win_pc,           \* the window: "open", "closing" (in closeEvent), "closed"
    emitted,          \* data updates emitted since stop() was called
    app_call,         \* the last poll or write of the application
    \* ---- ECAccess and main() (scripts/ec_fan_control*.py) -------------
    fds,              \* the descriptors open in the process
    port_fds,         \* those of them that are open on /dev/port
    port_file,        \* ECAccess.port_file: None or a descriptor
    mpc,              \* position of main()
    ec_call,          \* the last byte-accessor call and what it returned
    ec_prev           \* the accessor call before it

probeVars == <<ec_start, ec_end, stride, duty_cycles, pc, bk_addr, backup,
               backup_failed, addr, di, baseline_speeds, current_speeds,
               final_speeds, hits, discovered_fans, attempted, written, dev_opens,
               last_write, waited, tried, not_reversible>>
logVars == <<last_write, waited, tried, not_reversible>>
hwVars == <<port, orig, hw, shifted>>
appVars == <<toolkit, controllers, monitor_ctl, preset_ctl, running, mon_pc, win_pc,
             emitted, app_call>>
guiVars == <<hwmon, fan_devices, temp_devices, pwm_val, gui_call, gui_accesses,
             appVars>>
ecVars == <<fds, port_fds, port_file, mpc, ec_call, ec_prev>>
vars == <<hwVars, probeVars, guiVars, ecVars>>

----------------------------------------------------------------------------
\* Bounds of the model.
MaxAddr == 1        \* the free-hardware runs probe addresses 0..MaxAddr
MaxStride == 2
MaxDuties == 2      \* length of the duty ladder in the free-hardware runs
MaxRpm == 1         \* RPM readings are 0..MaxRpm
MaxGui == 1         \* raw-port accesses by the GUI controller in one run
MaxPatternRegs == 2 \* registers of regs_02 that find_fan_patterns tests
MaxControllers == 3 \* FanController objects one window makes: two refreshes
MaxPortFds == 2     \* descriptors on /dev/port the process can have open at once

\* Program constants.
NEUTRAL == 0        \* write_ec_reg(addr, 0x00)
SETTLE_WAIT == 2    \* time.sleep(2) after a duty write
REVERSAL_WAIT == 3  \* time.sleep(3) after the reversal write
RESTORE_WAIT == 1   \* time.sleep(1) after the "Restore baseline" write
PROTOCOL_WAIT_MS == 10  \* time.sleep(0.01) between the command and the data step

None == -1          \* Python's None where a byte, an address or a descriptor may stand
Unset == <<-1>>     \* a local RPM list not assigned yet

DefaultDuties == <<22, 50, 100, 150, 200, 255>>
Bytes == 0 .. 255
OrigBytes == {0, 2}

\* What get_fan_speeds can return: one entry per fan*_input file found, 0 for a
\* file that cannot be read, the empty list when the listing itself fails.
FanSpeedVectors == {<<>>} \cup {<<r>> : r \in 0 .. MaxRpm}

\* The simulated bench of the concrete scenario.
Scenario ==
    [ec_start |-> 32, ec_end |-> 44, stride |-> 4,
     duty_cycles |-> <<64, 128, 255>>,
     trig_addr |-> 36, trig_duty |-> 128, base |-> <<1>>, high |-> <<2>>]

\* The ports of the bench: the scenario's range and the GUI's EC fan registers.
BenchPorts == Scenario.ec_start .. 60

----------------------------------------------------------------------------
\* range(ec_start, ec_end + 1, stride)
RangeFrom(lo, hi, st) == {a \in lo .. hi : (a - lo) % st = 0}
ScanAddrs == RangeFrom(ec_start, ec_end, stride)

\* The addresses whose byte is in the backup file: the first Len(backup) of the range.
BackedUp == {a \in ScanAddrs : (a - ec_start) \div stride < Len(backup)}

\* Outcomes of one I/O call on /dev/port: TRUE done, FALSE an exception.
IoOutcomes ==
    IF hw = "sim" THEN {TRUE} ELSE IF hw = "denied" THEN {FALSE} ELSE BOOLEAN

\* get_fan_speeds()
FanSpeeds ==
    IF hw = "sim"
    THEN {IF shifted THEN Scenario.high ELSE Scenario.base}
    ELSE FanSpeedVectors

\* The bench's answer to a byte landing on the device.
ShiftAfter(a, v) ==
    IF hw = "sim" /\ a = Scenario.trig_addr
    THEN IF v = Scenario.trig_duty THEN TRUE
         ELSE IF v = NEUTRAL THEN FALSE ELSE shifted
    ELSE shifted

\* struct.pack('B', value): a bytes object of length one, or struct.error when
\* the value does not fit an unsigned byte.
PackB(value) == IF value \in Bytes THEN <<value>> ELSE "struct.error"

\* A bug UnpackB could have: format 'b', the byte read as a signed char.
UnpackBSigned(data) ==
    IF Len(data) > 0 THEN (IF data[1] > 127 THEN data[1] - 256 ELSE data[1]) ELSE None

\* struct.unpack('B', data)[0] if data else None
UnpackB(data) == IF Len(data) > 0 THEN data[1] ELSE None

\* A bug InRange could have: the bound taken one too far.
InRangeOneTooFar(a) == a < ec_end + 2

\* range(ec_start, ec_end + 1, stride) still yields a: a < ec_end + 1.
InRange(a) == a < ec_end + 1

\* A bug WriteLands could have: the byte written though the open failed.
WriteLandsUnopened(a, value, ok) ==
    PackB(value) # "struct.error" /\ a \in DOMAIN port

\* with open("/dev/port", "wb") as port: port.seek(a); port.write(pack('B', value))
\* puts a byte on the device when nothing in it raises.
WriteLands(a, value, ok) ==
    ok /\ PackB(value) # "struct.error" /\ a \in DOMAIN port

\* A bug NextAddr could have: the stride ignored.
NextAddrByOne(a) == a + 1

\* for addr in range(ec_start, ec_end + 1, stride): the address after a.
NextAddr(a) == a + stride

\* write_ec_reg(a, value) with outcome ok: open /dev/port, seek, write one byte.
WriteEcReg(a, value, ok) ==
    /\ attempted' = attempted \cup {a}
    /\ dev_opens' = dev_opens \cup {"write"}
    /\ IF WriteLands(a, value, ok)
       THEN /\ port' = [port EXCEPT ![a] = PackB(value)[1]]
            /\ written' = written \cup {a}
            /\ shifted' = ShiftAfter(a, value)
       ELSE UNCHANGED <<port, written, shifted>>

----------------------------------------------------------------------------
\* __main__: if os.geteuid() != 0: sys.exit(1); else the watcher is constructed.
ProbeMain ==
    /\ pc = "main"
    /\ \E root \in BOOLEAN : pc' = IF root THEN "backup_open" ELSE "exit"
    /\ UNCHANGED <<logVars, hwVars, guiVars, ecVars, ec_start, ec_end, stride, duty_cycles,
                   bk_addr, backup, backup_failed, addr, di, baseline_speeds,
                   current_speeds, final_speeds, hits, discovered_fans, attempted,
                   written, dev_opens>>

\* ECPokeWatcher.__init__ then _create_ec_backup: open /dev/port and the backup file.
BackupOpen ==
    /\ pc = "backup_open"
    /\ \E ok \in IoOutcomes :
         /\ dev_opens' = dev_opens \cup {"backup"}
         /\ IF ok
            THEN /\ pc' = "backup_loop"
                 /\ bk_addr' = ec_start
                 /\ UNCHANGED backup_failed
            ELSE /\ pc' = "constructed"
                 /\ backup_failed' = TRUE
                 /\ UNCHANGED bk_addr
    /\ UNCHANGED <<logVars, hwVars, guiVars, ecVars, ec_start, ec_end, stride, duty_cycles, backup,
                   addr, di, baseline_speeds, current_speeds, final_speeds, hits,
                   discovered_fans, attempted, written>>

\* One iteration of the backup loop: port.seek(addr); backup.write(port.read(1)).
BackupRead ==
    /\ pc = "backup_loop"
    /\ IF ~InRange(bk_addr)
       THEN /\ pc' = "constructed"
            /\ UNCHANGED <<backup, backup_failed, bk_addr>>
       ELSE \E ok \in IoOutcomes :
              IF ok
              THEN /\ backup' = Append(backup, port[bk_addr])
                   /\ bk_addr' = bk_addr + stride
                   /\ UNCHANGED <<pc, backup_failed>>
              ELSE /\ backup_failed' = TRUE
                   /\ pc' = "constructed"
                   /\ UNCHANGED <<backup, bk_addr>>
    /\ UNCHANGED <<logVars, hwVars, guiVars, ecVars, ec_start, ec_end, stride, duty_cycles,
                   addr, di, baseline_speeds, current_speeds, final_speeds, hits,
                   discovered_fans, attempted, written, dev_opens>>

\* run_discovery(): the session starts whatever the backup did.
RunDiscovery ==
    /\ pc = "constructed"
    /\ pc' = "loop"
    /\ addr' = ec_start
    /\ discovered_fans' = <<>>
    /\ UNCHANGED <<logVars, hwVars, guiVars, ecVars, ec_start, ec_end, stride, duty_cycles, bk_addr,
                   backup, backup_failed, di, baseline_speeds, current_speeds,
                   final_speeds, hits, attempted, written, dev_opens>>

\* for addr in range(...): test_register(addr) takes the baseline; or the loop ends.
NextAddress ==
    /\ pc = "loop"
    /\ IF ~InRange(addr)
       THEN /\ pc' = "done"
            /\ baseline_speeds' = Unset
            /\ UNCHANGED di
       ELSE /\ \E s \in FanSpeeds : baseline_speeds' = s
            /\ di' = 1
            /\ pc' = "duty"
    /\ current_speeds' = Unset
    /\ final_speeds' = Unset
    /\ UNCHANGED <<logVars, hwVars, guiVars, ecVars, ec_start, ec_end, stride, duty_cycles, bk_addr,
                   backup, backup_failed, addr, hits, discovered_fans, attempted,
                   written, dev_opens>>

\* No write_ec_reg call yet in this test_register call.
NoWrite == [value |-> None, ret |-> FALSE]

\* A bug Slept could have: the wait left out.
SleptNot(w, seconds) == w

\* time.sleep(seconds), when w seconds have passed since the last write call.
Slept(w, seconds) == w + seconds

\* A bug AfterFailedWrite could have: the same duty written again.
RetrySame(i) == i

\* if not self.write_ec_reg(addr, duty): continue -- the next duty of the ladder.
AfterFailedWrite(i) == i + 1

\* A bug Collected could have: the address kept whatever test_register returned.
CollectedAlways(list, a, ret) == Append(list, a)

\* if self.test_register(addr): discovered_fans.append(addr)
Collected(list, a, ret) == IF ret THEN Append(list, a) ELSE list

\* for duty in duty_cycles: write the duty; a failed write skips the step.
\* After the ladder test_register returns False and the outer loop advances.
WriteDuty ==
    /\ pc = "duty"
    /\ IF di > Len(duty_cycles)
       THEN /\ pc' = "loop"
            /\ addr' = NextAddr(addr)
            /\ baseline_speeds' = Unset
            /\ last_write' = NoWrite
            /\ waited' = None
            /\ discovered_fans' = Collected(discovered_fans, addr, FALSE)
            /\ UNCHANGED <<di, port, written, attempted, shifted, dev_opens, tried>>
       ELSE \E ok \in IoOutcomes :
              /\ WriteEcReg(addr, duty_cycles[di], ok)
              /\ last_write' = [value |-> duty_cycles[di],
                                ret |-> WriteLands(addr, duty_cycles[di], ok)]
              /\ waited' = 0
              /\ tried' = tried \cup {<<addr, duty_cycles[di]>>}
              /\ IF ok
                 THEN pc' = "observe" /\ di' = di
                 ELSE pc' = "duty" /\ di' = AfterFailedWrite(di)
              /\ UNCHANGED <<addr, baseline_speeds, discovered_fans>>
    /\ UNCHANGED <<not_reversible, orig, hw, guiVars, ecVars, ec_start, ec_end, stride, duty_cycles, bk_addr,
                   backup, backup_failed, current_speeds, final_speeds, hits>>

\* A bug RpmChanged could have: the comparison inverted.
RpmChangedInverted(current, baseline) == current = baseline

\* current_speeds != baseline_speeds
RpmChanged(current, baseline) == current # baseline

\* time.sleep(2); current_speeds = get_fan_speeds(); compare with the baseline.
Observe ==
    /\ pc = "observe"
    /\ \E s \in FanSpeeds :
         /\ current_speeds' = s
         /\ pc' = IF RpmChanged(s, baseline_speeds) THEN "reverse" ELSE "restore"
    /\ waited' = Slept(waited, SETTLE_WAIT)
    /\ UNCHANGED <<last_write, tried, not_reversible, hwVars, guiVars, ecVars, ec_start, ec_end, stride, duty_cycles, bk_addr,
                   backup, backup_failed, addr, di, baseline_speeds, final_speeds,
                   hits, discovered_fans, attempted, written, dev_opens>>

\* Testing reversibility: write_ec_reg(addr, 0x00), its result ignored.
Reverse ==
    /\ pc = "reverse"
    /\ \E ok \in IoOutcomes :
         /\ WriteEcReg(addr, NEUTRAL, ok)
         /\ last_write' = [value |-> NEUTRAL, ret |-> WriteLands(addr, NEUTRAL, ok)]
    /\ waited' = 0
    /\ pc' = "reobserve"
    /\ UNCHANGED <<tried, not_reversible, orig, hw, guiVars, ecVars, ec_start, ec_end, stride, duty_cycles, bk_addr,
                   backup, backup_failed, addr, di, baseline_speeds, current_speeds,
                   final_speeds, hits, discovered_fans>>

\* A bug Reversible could have: the reading after the reversal is compared
\* with anything but the post-write reading, not with the baseline.
ReversibleAgainstCurrent(final, baseline) == final # current_speeds

\* final_speeds == baseline_speeds
Reversible(final, baseline) == final = baseline

\* time.sleep(3); final_speeds = get_fan_speeds(); compare with the baseline.
Reobserve ==
    /\ pc = "reobserve"
    /\ \E s \in FanSpeeds :
         /\ final_speeds' = s
         /\ IF Reversible(s, baseline_speeds)
            THEN pc' = "confirmed" /\ UNCHANGED not_reversible
            ELSE pc' = "restore" /\ not_reversible' = not_reversible \cup {addr}
    /\ waited' = Slept(waited, REVERSAL_WAIT)
    /\ UNCHANGED <<last_write, tried, hwVars, guiVars, ecVars, ec_start, ec_end, stride, duty_cycles, bk_addr,
                   backup, backup_failed, addr, di, baseline_speeds, current_speeds,
                   hits, discovered_fans, attempted, written, dev_opens>>

\* A bug HitEntry could have: the top of the ladder recorded, not the duty under test.
HitEntryLadderTop == <<addr, duty_cycles[Len(duty_cycles)]>>

\* f.write(f"0x{addr:04X}:0x{duty:02X}\n")
HitEntry == <<addr, duty_cycles[di]>>

\* A bug ConfirmedGoesTo could have: no return after the hit, the ladder goes on.
ConfirmedFallsThrough == "restore"

\* return True: test_register is left and run_discovery's loop takes over.
ConfirmedGoesTo == "loop"

\* REVERSIBLE: the line "addr:duty" is appended to the hits file, test_register
\* returns True, run_discovery records the address and takes the next one.
Confirm ==
    /\ pc = "confirmed"
    /\ hits' = Append(hits, HitEntry)
    /\ discovered_fans' = Collected(discovered_fans, addr, TRUE)
    /\ pc' = ConfirmedGoesTo
    /\ addr' = IF ConfirmedGoesTo = "loop" THEN NextAddr(addr) ELSE addr
    /\ last_write' = IF ConfirmedGoesTo = "loop" THEN NoWrite ELSE last_write
    /\ waited' = IF ConfirmedGoesTo = "loop" THEN None ELSE waited
    /\ UNCHANGED <<tried, not_reversible, hwVars, guiVars, ecVars, ec_start, ec_end, stride, duty_cycles, bk_addr,
                   backup, backup_failed, di, baseline_speeds, current_speeds,
                   final_speeds, attempted, written, dev_opens>>

\* A bug RestoreValue could have: the duty under test written once more.
RestoreTheDuty == duty_cycles[di]

\* self.write_ec_reg(addr, 0x00) under "# Restore baseline"
RestoreValue == NEUTRAL

\* A bug RestoreGoesTo could have: the session given up after a hazard.
RestoreHaltsOnHazard == IF addr \in not_reversible THEN "done" ELSE "duty"

\* The end of the for body: the next iteration of the ladder.
RestoreGoesTo == "duty"

\* A bug NextDuty could have: the ladder not advanced after a step.
DutyAgain(i) == i

\* for duty in self.duty_cycles: the body has ended, the next duty is taken.
NextDuty(i) == i + 1

\* "Restore baseline": write_ec_reg(addr, 0x00); time.sleep(1); next duty.
\* final_speeds stays bound for the rest of this test_register call.
Restore ==
    /\ pc = "restore"
    /\ \E ok \in IoOutcomes :
         /\ WriteEcReg(addr, RestoreValue, ok)
         /\ last_write' = [value |-> RestoreValue,
                           ret |-> WriteLands(addr, RestoreValue, ok)]
    /\ waited' = Slept(0, RESTORE_WAIT)
    /\ di' = NextDuty(di)
    /\ current_speeds' = Unset
    /\ pc' = RestoreGoesTo
    /\ UNCHANGED <<tried, not_reversible, orig, hw, guiVars, ecVars, ec_start, ec_end, stride, duty_cycles, bk_addr,
                   backup, backup_failed, addr, baseline_speeds, final_speeds, hits,
                   discovered_fans>>

\* Ctrl-C: KeyboardInterrupt is caught nowhere in the script, so the session ends
\* wherever it is.
ProbeRunning ==
    pc \in {"loop", "duty", "observe", "reverse", "reobserve", "confirmed", "restore"}

Interrupt ==
    /\ ProbeRunning
    /\ pc' = "interrupted"
    /\ UNCHANGED <<logVars, hwVars, guiVars, ecVars, ec_start, ec_end, stride, duty_cycles, bk_addr,
                   backup, backup_failed, addr, di, baseline_speeds, current_speeds,
                   final_speeds, hits, discovered_fans, attempted, written, dev_opens>>

ProbeStep ==
    \/ BackupOpen
    \/ BackupRead
    \/ RunDiscovery
    \/ NextAddress
    \/ WriteDuty
    \/ Observe
    \/ Reverse
    \/ Reobserve
    \/ Confirm
    \/ Restore

----------------------------------------------------------------------------
\* FanController of alienfan_gui.py, alienfan_gui_tkinter.py, alienfan_gui_enhanced.py.
HwmonNames == {"hwmon0", "hwmon1"}
FanNums == {"1"}
TempNums == {"1"}
PwmRequests == {-1, 0, 255, 256}     \* pwm_value arguments tried
PwmRange == 0 .. 255

\* The sysfs trees considered: each device has any of fan<K>_input, pwm<K> and
\* temp<K>_input.
HwmonTrees ==
    [HwmonNames -> [fans : SUBSET FanNums, pwms : SUBSET FanNums,
                    temps : SUBSET TempNums]]

\* A bug Listed could have: every hwmon device gets an entry.
ListedAlways(channels) == TRUE

\* if fan_inputs: / if temp_inputs: an empty list tests false.
Listed(channels) == channels # {}

\* _discover_fan_devices: a device is listed when it has a fan input; a channel
\* is PWM-controllable when pwm<K> exists beside fan<K>_input.
DiscoverFanDevices(tree) ==
    [h \in {d \in DOMAIN tree : Listed(tree[d].fans)} |->
        [fan_inputs |-> tree[h].fans,
         fan_pwms |-> {k \in tree[h].fans : k \in tree[h].pwms}]]

\* _discover_temp_devices: a device is listed when it has a temperature input.
DiscoverTempDevices(tree) ==
    [h \in {d \in DOMAIN tree : Listed(tree[d].temps)} |->
        [temp_inputs |-> tree[h].temps]]

\* Outcomes of open(pwm_file, 'w') ... f.write(str(pwm_value)).
PwmOutcomes == {"ok", "open_failed", "write_failed"}

NoCall == [op |-> "none"]

\* A bug Known could have: only the device is looked up.
KnownDevice(h, k) == h \in DOMAIN fan_devices

\* Neither early return of set_pwm is taken: hwmon_name is in fan_devices and
\* fan_num in its fan_pwms.
Known(h, k) == h \in DOMAIN fan_devices /\ k \in fan_devices[h].fan_pwms

\* set_pwm(hwmon_name, fan_num, pwm_value)
SetPwm ==
    \E h \in HwmonNames \cup {"hwmon9"}, k \in FanNums \cup {"9"},
       v \in PwmRequests, out \in PwmOutcomes :
      LET known == Known(h, k)
          call == [op |-> "set_pwm", hwmon_name |-> h, fan_num |-> k,
                   pwm_value |-> v]
      IN  /\ IF ~known
             THEN /\ gui_call' = call @@ [ret |-> FALSE, wrote |-> FALSE]
                  /\ UNCHANGED pwm_val
             ELSE /\ gui_call' = call @@ [ret |-> (out = "ok"),
                                          wrote |-> (out # "open_failed")]
                  /\ pwm_val' = IF out = "ok"
                                THEN [pwm_val EXCEPT ![<<h, k>>] = v]
                                ELSE pwm_val
          /\ UNCHANGED <<hwVars, probeVars, ecVars, appVars, hwmon, fan_devices,
                   temp_devices,
                       gui_accesses>>

\* The newly unlocked EC fans: register (a hex string) -> port address.
ec_fan_registers == {"24", "28", "2C", "30", "34", "38", "3C"}
HexAddress(register) ==
    CASE register = "24" -> 36 [] register = "28" -> 40 [] register = "2C" -> 44
      [] register = "30" -> 48 [] register = "34" -> 52 [] register = "38" -> 56
      [] register = "3C" -> 60

\* Number of hex digits of n > 0, and n's leading two hex digits as a number.
RECURSIVE LeadingHexByte(_)
LeadingHexByte(n) == IF n < 256 THEN n ELSE LeadingHexByte(n \div 16)

\* echo -ne '\\x{pwm_value:02X}' | dd bs=1 count=1: the one byte that reaches the
\* device.  A shell whose echo takes -ne (bash) prints the byte of the first two
\* hex digits, or the backslash itself when a minus sign follows \\x; a shell whose
\* echo takes no -ne (dash as /bin/sh) prints the text "-ne ..." and dd writes
\* its first character.
Shells == {"bash", "dash"}
EchoFirstByte(pwm_value, sh) ==
    IF sh = "dash" THEN 45
    ELSE IF pwm_value < 0 THEN 92 ELSE LeadingHexByte(pwm_value)

\* set_ec_fan_pwm(register, pwm_value): ok is dd's exit status being 0.
SetEcFanPwm ==
    /\ gui_accesses < MaxGui
    /\ \E r \in ec_fan_registers \cup {"FF"}, v \in PwmRequests, ok \in BOOLEAN,
          sh \in Shells :
         LET call == [op |-> "set_ec_fan_pwm", register |-> r, pwm_value |-> v]
         IN  IF r \notin ec_fan_registers
             THEN /\ gui_call' = call @@ [ret |-> FALSE, wrote |-> FALSE]
                  /\ UNCHANGED <<port, shifted, gui_accesses>>
             ELSE /\ gui_call' = call @@ [ret |-> ok, wrote |-> ok]
                  /\ gui_accesses' = gui_accesses + 1
                  /\ IF ok /\ HexAddress(r) \in DOMAIN port
                     THEN /\ port' = [port EXCEPT
                                        ![HexAddress(r)] = EchoFirstByte(v, sh)]
                          /\ shifted' = ShiftAfter(HexAddress(r), EchoFirstByte(v, sh))
                     ELSE UNCHANGED <<port, shifted>>
    /\ UNCHANGED <<orig, hw, probeVars, ecVars, appVars, hwmon, fan_devices,
                   temp_devices,
                   pwm_val>>

\* get_ec_fan_pwms(): dd reads each register; a read that fails counts as 0.
GetEcFanPwms ==
    /\ gui_accesses < MaxGui
    /\ \E failed \in SUBSET (ec_fan_registers \cap {"24", "28"}) :
         gui_call' = [op |-> "get_ec_fan_pwms",
                      ret |-> [r \in ec_fan_registers |->
                                 IF r \in failed \/ HexAddress(r) \notin DOMAIN port
                                 THEN 0 ELSE port[HexAddress(r)]]]
    /\ gui_accesses' = gui_accesses + 1
    /\ UNCHANGED <<hwVars, probeVars, ecVars, appVars, hwmon, fan_devices,
                   temp_devices,
                   pwm_val>>

\* The (device, channel) pairs set_all_pwm walks: every fan_pwms entry of the
\* registry; and the pairs the sensor readers walk.
PwmChannels(reg) ==
    {c \in (DOMAIN reg) \X FanNums : c[2] \in reg[c[1]].fan_pwms}
FanInputs(reg) ==
    {c \in (DOMAIN reg) \X FanNums : c[2] \in reg[c[1]].fan_inputs}
TempInputs(reg) ==
    {c \in (DOMAIN reg) \X TempNums : c[2] \in reg[c[1]].temp_inputs}

\* The orders in which a dict built from os.listdir may be walked.
Orders(S) ==
    {q \in [1 .. Cardinality(S) -> S] :
        \A i, j \in 1 .. Cardinality(S) : i # j => q[i] # q[j]}

\* The EC fan registers as channels of set_all_pwm, in the order of the dict.
ec_fan_order == <<"24", "28", "2C", "30", "34", "38", "3C">>
EcChannel(register) == <<"ec", register>>
EcChannels == [i \in 1 .. Len(ec_fan_order) |-> EcChannel(ec_fan_order[i])]

\* A bug KeepGoing could have: the loop left at the first failed channel.
StopAtFirstFailure(success) == success

\* The loops of set_all_pwm have no break and no return: they go on whatever
\* the value of success so far.
KeepGoing(success) == TRUE

\* A bug Accumulate could have: the flag is the result of the last write.
AccumulateLast(success, ok) == ok

\* if not self.set_pwm(...): success = False; success starts True.
Accumulate(success, ok) == success /\ ok

\* for ...: if not self.set_pwm(...): success = False
\* out[c] is what the write on channel c does when it is attempted.
RECURSIVE SetAllLoop(_, _, _)
SetAllLoop(todo, out, acc) ==
    IF Len(todo) = 0 \/ ~KeepGoing(acc.success)
    THEN acc
    ELSE LET c == todo[1]
             rest == [i \in 1 .. Len(todo) - 1 |-> todo[i + 1]]
         IN  SetAllLoop(rest, out,
                        [attempts |-> acc.attempts \cup {c},
                         failed |-> IF out[c] = "ok" THEN acc.failed
                                    ELSE acc.failed \cup {c},
                         success |-> Accumulate(acc.success, out[c] = "ok")])

SetAllStart == [attempts |-> {}, failed |-> {}, success |-> TRUE]

\* The pwm files after a batch: the channels attempted with outcome "ok" hold v.
PwmAfter(r, out, v) ==
    [c \in DOMAIN pwm_val |->
        IF c \in r.attempts /\ out[c] = "ok" THEN v ELSE pwm_val[c]]

\* set_all_pwm(pwm_value) of alienfan_gui.py and alienfan_gui_tkinter.py.
\* The caller receives ret; attempts and failed record what the call did.
SetAllPwm ==
    /\ \E v \in PwmRequests, order \in Orders(PwmChannels(fan_devices)),
          out \in [PwmChannels(fan_devices) -> PwmOutcomes] :
         \E r \in {SetAllLoop(order, out, SetAllStart)} :
             /\ gui_call' = [op |-> "set_all_pwm", gui |-> "basic", pwm_value |-> v,
                             ret |-> r.success,
                             attempts |-> r.attempts, failed |-> r.failed]
             /\ pwm_val' = PwmAfter(r, out, v)
    /\ UNCHANGED <<hwVars, probeVars, ecVars, appVars, hwmon, fan_devices,
                   temp_devices,
                   gui_accesses>>

\* What set_ec_fan_pwm does on each register when dd fails on those in ecfail,
\* and the port addresses a batch with result r has written.
EcOutcomes(ecfail) ==
    [c \in {EcChannel(x) : x \in ec_fan_registers} |->
        IF c[2] \in ecfail THEN "dd_failed" ELSE "ok"]
Landed(r) ==
    {HexAddress(x) : x \in {y \in ec_fan_registers :
                               EcChannel(y) \in r.attempts \ r.failed}}

\* set_all_pwm(pwm_value) of alienfan_gui_enhanced.py: the hwmon fans, then the
\* EC fans through set_ec_fan_pwm; dd fails on the registers in ecfail.
SetAllPwmEnhanced ==
    /\ gui_accesses < MaxGui
    /\ \E v \in PwmRequests, order \in Orders(PwmChannels(fan_devices)),
          out \in [PwmChannels(fan_devices) -> PwmOutcomes],
          ecfail \in SUBSET {"24", "28"}, sh \in Shells :
         \E r \in {SetAllLoop(EcChannels, EcOutcomes(ecfail),
                                SetAllLoop(order, out, SetAllStart))} :
           \E landed \in {Landed(r)} :
             /\ gui_call' = [op |-> "set_all_pwm", gui |-> "enhanced",
                             pwm_value |-> v,
                             ret |-> r.success,
                             attempts |-> r.attempts, failed |-> r.failed]
             /\ pwm_val' = PwmAfter(r, out, v)
             /\ port' = [a \in DOMAIN port |->
                           IF a \in landed THEN EchoFirstByte(v, sh) ELSE port[a]]
             /\ shifted' = IF Scenario.trig_addr \in landed
                           THEN ShiftAfter(Scenario.trig_addr, EchoFirstByte(v, sh))
                           ELSE shifted
             /\ gui_accesses' = gui_accesses
                  + Cardinality(r.attempts \cap {EcChannel(x) : x \in ec_fan_registers})
    /\ UNCHANGED <<orig, hw, probeVars, ecVars, appVars, hwmon, fan_devices,
                   temp_devices>>

\* A bug SpeedOf could have: one failed read zeroes the whole batch.
SpeedOfPoisoned(c, value, fail) == IF fail # {} THEN 0 ELSE value[c]

\* speeds[hwmon_name][fan_num] = speed, or 0 in the except branch.
SpeedOf(c, value, fail) == IF c \in fail THEN 0 ELSE value[c]

\* get_fan_speeds(): value[c] is what fan<K>_input holds, fail the channels whose
\* open, read or int() raises.
GetFanSpeeds ==
    /\ \E value \in [FanInputs(fan_devices) -> 0 .. MaxRpm],
          fail \in SUBSET FanInputs(fan_devices) :
         gui_call' = [op |-> "get_fan_speeds",
                      ret |-> [h \in DOMAIN fan_devices |->
                                 [k \in fan_devices[h].fan_inputs |->
                                    SpeedOf(<<h, k>>, value, fail)]],
                      value |-> value, failed |-> fail]
    /\ UNCHANGED <<hwVars, probeVars, ecVars, appVars, hwmon, fan_devices,
                   temp_devices,
                   pwm_val, gui_accesses>>

\* temp_raw / 1000.0, kept exactly as whole degrees and thousandths.
TempRaws == {0, 45500}
Celsius(temp_raw) == [deg |-> temp_raw \div 1000, milli |-> temp_raw % 1000]

\* get_temperatures(): the same loop over temp_devices; 0.0 in the except branch.
GetTemperatures ==
    /\ \E value \in [TempInputs(temp_devices) -> TempRaws],
          fail \in SUBSET TempInputs(temp_devices) :
         gui_call' = [op |-> "get_temperatures",
                      ret |-> [h \in DOMAIN temp_devices |->
                                 [k \in temp_devices[h].temp_inputs |->
                                    Celsius(SpeedOf(<<h, k>>, value, fail))]],
                      value |-> value, failed |-> fail]
    /\ UNCHANGED <<hwVars, probeVars, ecVars, appVars, hwmon, fan_devices,
                   temp_devices,
                   pwm_val, gui_accesses>>

\* get_pwm_values(): the pwm files of the fan_pwms channels; 0 in the except
\* branch.
GetPwmValues ==
    /\ \E fail \in SUBSET PwmChannels(fan_devices) :
         gui_call' = [op |-> "get_pwm_values",
                      ret |-> [h \in DOMAIN fan_devices |->
                                 [k \in fan_devices[h].fan_pwms |->
                                    SpeedOf(<<h, k>>, pwm_val, fail)]],
                      value |-> pwm_val, failed |-> fail]
    /\ UNCHANGED <<hwVars, probeVars, ecVars, appVars, hwmon, fan_devices,
                   temp_devices,
                   pwm_val, gui_accesses>>

\* No window of the application is open: the controller is used on its own.
NoApp ==
    /\ toolkit = "qt"
    /\ controllers = <<>>
    /\ monitor_ctl = 0
    /\ preset_ctl = 0
    /\ running = FALSE
    /\ mon_pc = "finished"
    /\ win_pc = "closed"
    /\ emitted = 0
    /\ app_call = NoCall

GuiInit(tree) ==
    /\ NoApp
    /\ hwmon = tree
    /\ fan_devices = DiscoverFanDevices(tree)
    /\ temp_devices = DiscoverTempDevices(tree)
    /\ pwm_val = [f \in {<<h, k>> \in HwmonNames \X FanNums : k \in tree[h].pwms}
                    |-> 0]
    /\ gui_call = NoCall
    /\ gui_accesses = 0

\* The application window: AlienwareFanGUI with its SensorMonitor and preset widget.
\* The sysfs trees of its runs: hwmon0 with a controllable fan and a temperature;
\* hwmon1 absent, or present with a controllable fan (its driver loaded).
AppTrees ==
    {t \in HwmonTrees :
        /\ t["hwmon0"] = [fans |-> {"1"}, pwms |-> {"1"}, temps |-> {"1"}]
        /\ t["hwmon1"].fans = t["hwmon1"].pwms
        /\ t["hwmon1"].temps = {}}
AppPwm == {64, 255}                  \* presets "quiet" and "max"
PwmFiles(tree) == {c \in HwmonNames \X FanNums : c[2] \in tree[c[1]].pwms}

\* FanController(): the registries its constructor discovers.
Registry(tree) ==
    [fan_devices |-> DiscoverFanDevices(tree),
     temp_devices |-> DiscoverTempDevices(tree)]

\* self.controller of the window: the controller made last.
WindowCtl == Len(controllers)

\* The controller a poll reads: SensorMonitor.controller, given at construction
\* (alienfan_gui.py); self.controller of the window, read at each poll
\* (alienfan_gui_tkinter.py).
MonitorUses == IF toolkit = "tk" THEN WindowCtl ELSE monitor_ctl

AppInit ==
    /\ toolkit \in {"qt", "tk"}
    /\ controllers = <<Registry(hwmon)>>
    /\ monitor_ctl = 1
    /\ preset_ctl = 1
    /\ running = TRUE
    /\ mon_pc = "check"
    /\ win_pc = "open"
    /\ emitted = 0
    /\ app_call = NoCall

\* A hwmon driver is loaded or removed while the window is open.
HwmonChanges ==
    /\ win_pc = "open"
    /\ \E t \in AppTrees \ {hwmon} :
         /\ hwmon' = t
         /\ pwm_val' = [c \in PwmFiles(t) |->
                          IF c \in DOMAIN pwm_val THEN pwm_val[c] ELSE 0]
    /\ UNCHANGED <<hwVars, probeVars, ecVars, appVars, fan_devices, temp_devices,
                   gui_call, gui_accesses>>

\* refresh_devices(): self.controller = FanController(); self.setup_devices().
\* The fan widgets are rebuilt on the new controller; the monitor and the preset
\* widget are not touched.
RefreshDevices ==
    /\ win_pc = "open"
    /\ Len(controllers) < MaxControllers
    /\ controllers' = Append(controllers, Registry(hwmon))
    /\ fan_devices' = DiscoverFanDevices(hwmon)
    /\ temp_devices' = DiscoverTempDevices(hwmon)
    /\ app_call' = [op |-> "refresh_devices", used |-> WindowCtl + 1,
                    window |-> WindowCtl + 1]
    /\ UNCHANGED <<hwVars, probeVars, ecVars, hwmon, pwm_val, gui_call, gui_accesses,
                   toolkit, monitor_ctl, preset_ctl, running, mon_pc, win_pc,
                   emitted>>

\* A bug Continues could have: while True.
ContinuesAlways(flag) == TRUE

\* while self.running:
Continues(flag) == flag

\* The loop test of SensorMonitor.run / monitor_sensors.
MonitorCheck ==
    /\ mon_pc = "check"
    /\ mon_pc' = IF Continues(running) THEN "poll" ELSE "finished"
    /\ UNCHANGED <<hwVars, probeVars, ecVars, hwmon, fan_devices, temp_devices,
                   pwm_val, gui_call, gui_accesses, toolkit, controllers,
                   monitor_ctl, preset_ctl, running, win_pc, emitted, app_call>>

\* get_fan_speeds(), get_temperatures(), get_pwm_values() on the monitor's
\* controller, then data_updated.emit(speeds, temps, pwms).
MonitorPoll ==
    /\ mon_pc = "poll"
    /\ LET reg == controllers[MonitorUses]
       IN  app_call' = [op |-> "poll", used |-> MonitorUses, window |-> WindowCtl,
                        speeds |-> DOMAIN reg.fan_devices,
                        temps |-> DOMAIN reg.temp_devices,
                        pwms |-> [c \in PwmChannels(reg.fan_devices) |->
                                    IF c \in DOMAIN pwm_val THEN pwm_val[c] ELSE 0]]
    /\ emitted' = IF running THEN emitted ELSE emitted + 1
    /\ mon_pc' = "sleep"
    /\ UNCHANGED <<hwVars, probeVars, ecVars, hwmon, fan_devices, temp_devices,
                   pwm_val, gui_call, gui_accesses, toolkit, controllers,
                   monitor_ctl, preset_ctl, running, win_pc>>

\* time.sleep(2) at the end of the loop body.
MonitorSleep ==
    /\ mon_pc = "sleep"
    /\ mon_pc' = "check"
    /\ UNCHANGED <<hwVars, probeVars, ecVars, hwmon, fan_devices, temp_devices,
                   pwm_val, gui_call, gui_accesses, toolkit, controllers,
                   monitor_ctl, preset_ctl, running, win_pc, emitted, app_call>>

\* closeEvent: self.monitor.stop(), then self.monitor.wait() blocks the GUI
\* thread.  on_closing of the tkinter window sets running False and destroys the
\* root: the main loop returns and the daemon thread ends with the process.
CloseEvent ==
    /\ win_pc = "open"
    /\ running' = FALSE
    /\ win_pc' = IF toolkit = "tk" THEN "closed" ELSE "closing"
    /\ mon_pc' = IF toolkit = "tk" THEN "finished" ELSE mon_pc
    /\ UNCHANGED <<hwVars, probeVars, ecVars, hwmon, fan_devices, temp_devices,
                   pwm_val, gui_call, gui_accesses, toolkit, controllers,
                   monitor_ctl, preset_ctl, emitted, app_call>>

\* self.monitor.wait() returns when run() has returned; event.accept().
WaitReturns ==
    /\ win_pc = "closing"
    /\ mon_pc = "finished"
    /\ win_pc' = "closed"
    /\ UNCHANGED <<hwVars, probeVars, ecVars, hwmon, fan_devices, temp_devices,
                   pwm_val, gui_call, gui_accesses, toolkit, controllers,
                   monitor_ctl, preset_ctl, running, mon_pc, emitted, app_call>>

\* What a write to pwm<K> of channel c can do: the file may be gone.
FileOutcomes(c) == IF c \in DOMAIN pwm_val THEN {"ok", "write_failed"}
                   ELSE {"open_failed"}

\* PresetWidget.apply_preset / apply_custom_pwm: set_all_pwm on the controller
\* the preset widget was constructed with.
ApplyPreset ==
    /\ win_pc = "open"
    /\ LET reg == controllers[preset_ctl]
           chans == PwmChannels(reg.fan_devices)
       IN  \E v \in AppPwm, order \in Orders(chans),
              out \in {f \in [chans -> PwmOutcomes] :
                          \A c \in chans : f[c] \in FileOutcomes(c)} :
             \E r \in {SetAllLoop(order, out, SetAllStart)} :
               /\ app_call' = [op |-> "apply_preset", used |-> preset_ctl,
                               window |-> WindowCtl, pwm_value |-> v,
                               ret |-> r.success, attempts |-> r.attempts]
               /\ pwm_val' = PwmAfter(r, out, v)
    /\ UNCHANGED <<hwVars, probeVars, ecVars, hwmon, fan_devices, temp_devices,
                   gui_call, gui_accesses, toolkit, controllers, monitor_ctl,
                   preset_ctl, running, mon_pc, win_pc, emitted>>

\* FanControlWidget of a registry fan: set_pwm on the window's controller, with
\* which setup_devices built the widget.
WidgetSetPwm ==
    /\ win_pc = "open"
    /\ \E c \in FanInputs(fan_devices), v \in AppPwm :
         \E o \in (IF Known(c[1], c[2]) THEN FileOutcomes(c) ELSE {"unknown"}) :
           /\ app_call' = [op |-> "set_pwm", used |-> WindowCtl,
                           window |-> WindowCtl, pwm_value |-> v,
                           channel |-> c, ret |-> (o = "ok")]
           /\ pwm_val' = IF o = "ok" THEN [pwm_val EXCEPT ![c] = v] ELSE pwm_val
    /\ UNCHANGED <<hwVars, probeVars, ecVars, hwmon, fan_devices, temp_devices,
                   gui_call, gui_accesses, toolkit, controllers, monitor_ctl,
                   preset_ctl, running, mon_pc, win_pc, emitted>>

MonitorStep == MonitorCheck \/ MonitorPoll \/ MonitorSleep

AppStep ==
    \/ HwmonChanges
    \/ RefreshDevices
    \/ MonitorCheck
    \/ MonitorPoll
    \/ MonitorSleep
    \/ CloseEvent
    \/ WaitReturns
    \/ ApplyPreset
    \/ WidgetSetPwm

\* A machine without hwmon fan devices, for the runs of the probe alone.
NoHwmon == [h \in HwmonNames |-> [fans |-> {}, pwms |-> {}, temps |-> {}]]

----------------------------------------------------------------------------
\* ECAccess of scripts/ec_fan_control.py and ECAccessEnhanced of
\* scripts/ec_fan_control_enhanced.py (the same code), and the main() around it.

\* ec_ports: the command and data ports the session reads and writes.
ec_ports == [command |-> 98, data |-> 99, smm_command |-> 102, smm_data |-> 103]
SessionPorts == {ec_ports.command, ec_ports.data}
ByteSamples == {0, 128, 255}         \* byte values written in the runs

\* os.open returns the lowest descriptor not in use.
RECURSIVE LowestFree(_, _)
LowestFree(used, n) == IF n \notin used THEN n ELSE LowestFree(used, n + 1)

\* Python's truth value of port_file in "if self.port_file" / "if not self.port_file".
Truthy(x) == x # None /\ x # 0

\* bytes([value]): one byte, or ValueError outside range(256).
BytesOf(value) == IF value \in Bytes THEN <<value>> ELSE "ValueError"

\* data[0] if data else None
FirstByte(data) == IF Len(data) > 0 THEN data[1] ELSE None

\* os.read(fd, 1) / port.read(1) at address a of the device.
DeviceRead(a) == IF a \in DOMAIN port THEN <<port[a]>> ELSE <<>>

Called(call) == /\ ec_call' = call
                /\ ec_prev' = ec_call

\* open_port(): os.open('/dev/port', os.O_RDWR); False when it raises.
\* main() returns at once when open_ec() fails.
MainOpen ==
    /\ mpc = "start"
    /\ \E ok \in BOOLEAN :
         IF ok
         THEN /\ port_file' = LowestFree(fds, 0)
              /\ fds' = fds \cup {LowestFree(fds, 0)}
              /\ port_fds' = port_fds \cup {LowestFree(fds, 0)}
              /\ mpc' = "session"
         ELSE /\ mpc' = "exit"
              /\ UNCHANGED <<port_file, fds, port_fds>>
    /\ UNCHANGED <<hwVars, probeVars, guiVars, ec_call, ec_prev>>

\* open_port() called on an ECAccess: os.open('/dev/port', os.O_RDWR) stored in
\* port_file, True; False when os.open raises.
OpenPort ==
    /\ mpc = "session"
    /\ Cardinality(port_fds) < MaxPortFds
    /\ \E ok \in BOOLEAN :
         /\ Called([op |-> "open_port", held |-> port_file, ret |-> ok])
         /\ IF ok
            THEN /\ port_file' = LowestFree(fds, 0)
                 /\ fds' = fds \cup {LowestFree(fds, 0)}
                 /\ port_fds' = port_fds \cup {LowestFree(fds, 0)}
            ELSE UNCHANGED <<port_file, fds, port_fds>>
    /\ UNCHANGED <<hwVars, probeVars, guiVars, mpc>>

\* close_port(): if self.port_file: os.close(self.port_file); self.port_file = None
ClosePort ==
    /\ mpc = "session"
    /\ Called([op |-> "close_port", held |-> port_file])
    /\ IF Truthy(port_file)
       THEN /\ fds' = fds \ {port_file}
            /\ port_fds' = port_fds \ {port_file}
            /\ port_file' = None
       ELSE UNCHANGED <<fds, port_fds, port_file>>
    /\ UNCHANGED <<hwVars, probeVars, guiVars, mpc>>

\* read_port(a) during the session: a scan step or the "read" command.
ReadPort ==
    /\ mpc = "session"
    /\ \E a \in SessionPorts, ok \in IoOutcomes :
         Called([op |-> "read_port", port |-> a, value |-> None, held |-> port_file,
                 ret |-> IF Truthy(port_file) /\ ok
                         THEN FirstByte(DeviceRead(a)) ELSE None])
    /\ UNCHANGED <<hwVars, probeVars, guiVars, fds, port_fds, port_file, mpc>>

\* write_port(a, value) during the session: a test step or the "write" command.
WritePort ==
    /\ mpc = "session"
    /\ \E a \in SessionPorts, v \in ByteSamples, ok \in IoOutcomes :
         LET done == Truthy(port_file) /\ ok /\ BytesOf(v) # "ValueError"
         IN  /\ Called([op |-> "write_port", port |-> a, value |-> v,
                        held |-> port_file, ret |-> done])
             /\ port' = IF done THEN [port EXCEPT ![a] = BytesOf(v)[1]] ELSE port
    /\ UNCHANGED <<orig, hw, shifted, probeVars, guiVars, fds, port_fds, port_file,
                   mpc>>

\* The try block of main() is left: "quit", end of input or Ctrl-C at the prompt
\* (break), or an exception no handler catches; the finally clause runs next.
MainLeave ==
    /\ mpc = "session"
    /\ mpc' = "finally"
    /\ UNCHANGED <<hwVars, probeVars, guiVars, fds, port_fds, port_file, ec_call,
                   ec_prev>>

\* finally: controller.close_ec() -> close_port():
\*   if self.port_file: os.close(self.port_file); self.port_file = None
MainFinally ==
    /\ mpc = "finally"
    /\ IF Truthy(port_file)
       THEN /\ fds' = fds \ {port_file}
            /\ port_fds' = port_fds \ {port_file}
            /\ port_file' = None
       ELSE UNCHANGED <<fds, port_fds, port_file>>
    /\ mpc' = "exit"
    /\ UNCHANGED <<hwVars, probeVars, guiVars, ec_call, ec_prev>>

\* ECPokeWatcher.write_ec_reg(a, value) and read_ec_reg(a), called on their own:
\* each opens /dev/port for the one access.
RegWrite ==
    /\ pc = "backup_open"
    /\ \E a \in SessionPorts, v \in ByteSamples, ok \in IoOutcomes :
         /\ WriteEcReg(a, v, ok)
         /\ Called([op |-> "write_ec_reg", port |-> a, value |-> v,
                    ret |-> ok /\ PackB(v) # "struct.error"])
    /\ UNCHANGED <<logVars, orig, hw, guiVars, fds, port_fds, port_file, mpc, ec_start,
                   ec_end, stride, duty_cycles, pc, bk_addr, backup, backup_failed,
                   addr, di, baseline_speeds, current_speeds, final_speeds, hits,
                   discovered_fans>>

RegRead ==
    /\ pc = "backup_open"
    /\ \E a \in SessionPorts, ok \in IoOutcomes :
         Called([op |-> "read_ec_reg", port |-> a, value |-> None,
                 ret |-> IF ok THEN UnpackB(DeviceRead(a)) ELSE None])
    /\ UNCHANGED <<hwVars, probeVars, guiVars, fds, port_fds, port_file, mpc>>

\* The command/data protocol: ec_read, ec_write, smm_read, smm_write.
ProtoPorts == {ec_ports.command, ec_ports.data, ec_ports.smm_command,
               ec_ports.smm_data}
ProtoCommands == {48}                \* fan_commands['fan1']
ProtoValues == {0, 255}
CommandPort(family) ==
    IF family = "ec" THEN ec_ports.command ELSE ec_ports.smm_command
DataPort(family) == IF family = "ec" THEN ec_ports.data ELSE ec_ports.smm_data

\* write_port(a, v) returns True: the port is held open and lseek/write raise nothing.
WritePortDone(v, ok) == Truthy(port_file) /\ ok /\ BytesOf(v) # "ValueError"

\* What a protocol operation does on the device, in order: the port accesses it
\* makes (none when port_file tests false) and its sleeps.
WriteEvent(a, v, ok) ==
    IF Truthy(port_file)
    THEN <<[kind |-> "write", port |-> a, value |-> v, done |-> WritePortDone(v, ok)]>>
    ELSE <<>>
ReadEvent(a, ok) ==
    IF Truthy(port_file)
    THEN <<[kind |-> "read", port |-> a, value |-> None, done |-> ok]>>
    ELSE <<>>
SleepEvent ==
    <<[kind |-> "sleep", port |-> None, value |-> PROTOCOL_WAIT_MS, done |-> TRUE]>>

\* A bug ProceedAfter could have: the result of the command write not looked at.
ProceedAlways(done) == TRUE

\* if not self.write_port(command_port, command): return None / False
ProceedAfter(done) == done

\* ec_read(command) / smm_read(command)
ProtoRead(family) ==
    /\ mpc = "session"
    /\ \E c \in ProtoCommands, ok1 \in IoOutcomes, ok2 \in IoOutcomes :
         LET done1 == WritePortDone(c, ok1)
             go == ProceedAfter(done1)
         IN  /\ Called([op |-> IF family = "ec" THEN "ec_read" ELSE "smm_read",
                        command |-> c, value |-> None,
                        ret |-> IF go /\ Truthy(port_file) /\ ok2
                                THEN FirstByte(DeviceRead(DataPort(family)))
                                ELSE None,
                        steps |-> WriteEvent(CommandPort(family), c, ok1)
                                  \o (IF go
                                      THEN SleepEvent \o ReadEvent(DataPort(family), ok2)
                                      ELSE <<>>)])
             /\ port' = IF done1 THEN [port EXCEPT ![CommandPort(family)] = c]
                         ELSE port
    /\ UNCHANGED <<orig, hw, shifted, probeVars, guiVars, fds, port_fds, port_file,
                   mpc>>

\* ec_write(command, value) / smm_write(command, value)
ProtoWrite(family) ==
    /\ mpc = "session"
    /\ \E c \in ProtoCommands, v \in ProtoValues, ok1 \in IoOutcomes,
          ok2 \in IoOutcomes :
         LET done1 == WritePortDone(c, ok1)
             go == ProceedAfter(done1)
             done2 == go /\ WritePortDone(v, ok2)
         IN  /\ Called([op |-> IF family = "ec" THEN "ec_write" ELSE "smm_write",
                        command |-> c, value |-> v,
                        ret |-> done2,
                        steps |-> WriteEvent(CommandPort(family), c, ok1)
                                  \o (IF go
                                      THEN SleepEvent
                                           \o WriteEvent(DataPort(family), v, ok2)
                                      ELSE <<>>)])
             /\ port' = [a \in DOMAIN port |->
                           IF a = DataPort(family) /\ done2 THEN v
                           ELSE IF a = CommandPort(family) /\ done1 THEN c
                           ELSE port[a]]
    /\ UNCHANGED <<orig, hw, shifted, probeVars, guiVars, fds, port_fds, port_file,
                   mpc>>

\* AlienwareFanController.fan_commands, and the pwm values asked for.
fan_commands == [fan1 |-> 48, fan2 |-> 49]
FanIds == {"fan1", "fan2", "fan9"}
SpeedRequests == {-1, 0, 128, 255, 256, 1000}

\* A bug Clamp could have: the value passed on as it came.
ClampNot(pwm_value) == pwm_value

\* pwm_value = max(0, min(255, pwm_value))
Clamp(pwm_value) ==
    LET low == IF 255 < pwm_value THEN 255 ELSE pwm_value
    IN  IF 0 > low THEN 0 ELSE low

\* set_fan_speed(fan_id, pwm_value): False for an unknown fan; else ec_write of
\* the fan's command and the clamped value.
SetFanSpeed ==
    /\ mpc = "session"
    /\ \E id \in FanIds, pwm \in SpeedRequests, ok1 \in IoOutcomes,
          ok2 \in IoOutcomes :
         LET call == [op |-> "set_fan_speed", fan_id |-> id, pwm_value |-> pwm]
         IN  IF id \notin DOMAIN fan_commands
             THEN /\ Called(call @@ [command |-> None, value |-> None,
                                     ret |-> FALSE, steps |-> <<>>])
                  /\ UNCHANGED port
             ELSE LET c == fan_commands[id]
                      v == Clamp(pwm)
                      done1 == WritePortDone(c, ok1)
                      go == ProceedAfter(done1)
                      done2 == go /\ WritePortDone(v, ok2)
                  IN  /\ Called(call @@
                                [command |-> c, value |-> v, ret |-> done2,
                                 steps |-> WriteEvent(CommandPort("ec"), c, ok1)
                                           \o (IF go
                                               THEN SleepEvent
                                                    \o WriteEvent(DataPort("ec"), v, ok2)
                                               ELSE <<>>)])
                      /\ port' = [a \in DOMAIN port |->
                                    IF a = DataPort("ec") /\ done2 THEN v
                                    ELSE IF a = CommandPort("ec") /\ done1 THEN c
                                    ELSE port[a]]
    /\ UNCHANGED <<orig, hw, shifted, probeVars, guiVars, fds, port_fds, port_file,
                   mpc>>

EcRead == ProtoRead("ec")
EcWrite == ProtoWrite("ec")
SmmRead == ProtoRead("smm")
SmmWrite == ProtoWrite("smm")

\* AlienwareFanControllerEnhanced (scripts/ec_fan_control_enhanced.py):
\* test_register_fan_control and find_fan_patterns.
test_values == <<0, 64, 128, 192, 255>>
pattern_values == <<0, 64, 128, 255>>
regs_02 == SubSeq(<<32, 36, 40, 44, 48, 52, 56, 60>>, 1, MaxPatternRegs)
TestRegs == {regs_02[i] : i \in 1 .. Len(regs_02)}
PATTERN_BYTE == 2       \* "Registers with 0x02": what regs_02 hold at the start

\* What one step of a test loop meets: write_port returns False; the write is
\* done and the read-back returns the value; the read-back returns another
\* byte (the EC did not take the value); the read-back returns None.
StepOutcomes == {"write_failed", "held", "reverted", "read_failed"}

\* With port_file testing false write_port returns False at once.
StepOutcomesNow == IF Truthy(port_file) THEN StepOutcomes ELSE {"write_failed"}

\* current_value = self.ec.read_port(register)
InitialRead(reg, ok) ==
    IF Truthy(port_file) /\ ok THEN FirstByte(DeviceRead(reg)) ELSE None

\* A register test is under way: the prompt takes no command meanwhile.
TestRunning ==
    /\ mpc = "session"
    /\ ec_call.op \in {"test_register_fan_control", "find_fan_patterns"}
    /\ ec_call.phase # "ended"

\* The device after a test write of v to reg with outcome o.
PortAfter(reg, v, o) ==
    IF o \in {"held", "read_failed"} THEN [port EXCEPT ![reg] = v] ELSE port

\* test_register_fan_control(register, fan_name), the "test_register" command:
\* the initial read and its print.  f"{current_value:02X}" raises TypeError on
\* None, which is caught nowhere up to the finally clause of main().
TestRegisterFanControl ==
    /\ mpc = "session"
    /\ ~TestRunning
    /\ \E reg \in TestRegs, ok0 \in IoOutcomes :
         LET cur == InitialRead(reg, ok0)
         IN  /\ ec_call' = [op |-> "test_register_fan_control", register |-> reg,
                            current |-> cur, at |-> 1,
                            phase |-> IF cur = None THEN "ended" ELSE "loop",
                            raised |-> cur = None, write_failed |-> FALSE,
                            last_written |-> None, ports_written |-> {}]
             /\ mpc' = IF cur = None THEN "finally" ELSE "session"
    /\ UNCHANGED <<hwVars, probeVars, guiVars, fds, port_fds, port_file, ec_prev>>

\* for test_value in test_values: write, sleep, read back, print.
\* f"{new_value:02X}" raises TypeError when the read-back returned None.
RegisterStep ==
    /\ TestRunning
    /\ ec_call.op = "test_register_fan_control"
    /\ ec_call.phase = "loop"
    /\ \E o \in StepOutcomesNow :
         LET v == test_values[ec_call.at]
         IN  /\ port' = PortAfter(ec_call.register, v, o)
             /\ ec_call' = [ec_call EXCEPT
                   !.at = @ + 1,
                   !.phase = IF o = "read_failed" THEN "ended"
                             ELSE IF ec_call.at = Len(test_values) THEN "restore"
                             ELSE "loop",
                   !.raised = (o = "read_failed"),
                   !.write_failed = @ \/ o = "write_failed",
                   !.last_written = IF o = "write_failed" THEN @ ELSE v,
                   !.ports_written = IF o = "write_failed" THEN @
                                     ELSE @ \cup {ec_call.register}]
             /\ mpc' = IF o = "read_failed" THEN "finally" ELSE "session"
    /\ UNCHANGED <<orig, hw, shifted, probeVars, guiVars, fds, port_fds, port_file,
                   ec_prev>>

\* if current_value is not None: self.ec.write_port(register, current_value)
RegisterRestore ==
    /\ TestRunning
    /\ ec_call.op = "test_register_fan_control"
    /\ ec_call.phase = "restore"
    /\ \E okr \in IoOutcomes :
         LET done == WritePortDone(ec_call.current, okr)
         IN  /\ port' = IF done THEN [port EXCEPT ![ec_call.register] = ec_call.current]
                         ELSE port
             /\ ec_call' = [ec_call EXCEPT
                   !.phase = "ended",
                   !.write_failed = @ \/ ~done,
                   !.last_written = IF done THEN ec_call.current ELSE @,
                   !.ports_written = IF done THEN @ \cup {ec_call.register} ELSE @]
    /\ UNCHANGED <<orig, hw, shifted, probeVars, guiVars, fds, port_fds, port_file,
                   mpc, ec_prev>>

\* find_fan_patterns(): the listing of the interesting registers reads only;
\* then the loop over regs_02 starts.
FindFanPatterns ==
    /\ mpc = "session"
    /\ ~TestRunning
    /\ ec_call' = [op |-> "find_fan_patterns", reg_at |-> 1, phase |-> "read",
                   current |-> None, at |-> 1, raised |-> FALSE,
                   tested |-> {}, restored |-> {}, unread |-> {},
                   write_failed |-> FALSE]
    /\ UNCHANGED <<hwVars, probeVars, guiVars, fds, port_fds, port_file, mpc,
                   ec_prev>>

\* for reg in regs_02: current = self.ec.read_port(reg)
PatternRead ==
    /\ TestRunning
    /\ ec_call.op = "find_fan_patterns"
    /\ ec_call.phase = "read"
    /\ \E ok0 \in IoOutcomes :
         LET reg == regs_02[ec_call.reg_at]
             cur == InitialRead(reg, ok0)
         IN  ec_call' = [ec_call EXCEPT
                 !.phase = "loop", !.at = 1, !.current = cur,
                 !.tested = @ \cup {reg},
                 !.unread = IF cur = None THEN @ \cup {reg} ELSE @]
    /\ UNCHANGED <<hwVars, probeVars, guiVars, fds, port_fds, port_file, mpc,
                   ec_prev>>

\* for test_val in [0x00, 0x40, 0x80, 0xFF]: write, sleep, read back; break when
\* the value is held; f"{new_val:02X}" raises TypeError on None.
PatternStep ==
    /\ TestRunning
    /\ ec_call.op = "find_fan_patterns"
    /\ ec_call.phase = "loop"
    /\ \E o \in StepOutcomesNow :
         LET reg == regs_02[ec_call.reg_at]
             v == pattern_values[ec_call.at]
         IN  /\ port' = PortAfter(reg, v, o)
             /\ ec_call' = [ec_call EXCEPT
                   !.at = @ + 1,
                   !.phase = IF o = "read_failed" THEN "ended"
                             ELSE IF o = "held" \/ ec_call.at = Len(pattern_values)
                             THEN "restore"
                             ELSE "loop",
                   !.raised = (o = "read_failed"),
                   !.write_failed = @ \/ o = "write_failed"]
             /\ mpc' = IF o = "read_failed" THEN "finally" ELSE "session"
    /\ UNCHANGED <<orig, hw, shifted, probeVars, guiVars, fds, port_fds, port_file,
                   ec_prev>>

\* if current is not None: self.ec.write_port(reg, current); the next register.
PatternRestore ==
    /\ TestRunning
    /\ ec_call.op = "find_fan_patterns"
    /\ ec_call.phase = "restore"
    /\ \E okr \in IoOutcomes :
         LET reg == regs_02[ec_call.reg_at]
             called == ec_call.current # None
             done == called /\ WritePortDone(ec_call.current, okr)
         IN  /\ port' = IF done THEN [port EXCEPT ![reg] = ec_call.current] ELSE port
             /\ ec_call' = [ec_call EXCEPT
                   !.reg_at = @ + 1,
                   !.phase = IF ec_call.reg_at = Len(regs_02) THEN "ended" ELSE "read",
                   !.restored = IF done THEN @ \cup {reg} ELSE @,
                   !.write_failed = @ \/ (called /\ ~done)]
    /\ UNCHANGED <<orig, hw, shifted, probeVars, guiVars, fds, port_fds, port_file,
                   mpc, ec_prev>>

\* "quit" (or end of input) at the prompt of interactive_mode.
QuitSession == ~TestRunning /\ MainLeave

\* The process starts with the standard descriptors, or with stdin closed.
EcInit ==
    /\ fds \in {{0, 1, 2}, {1, 2}}
    /\ port_fds = {}
    /\ port_file = None
    /\ mpc = "start"
    /\ ec_call = NoCall
    /\ ec_prev = NoCall

\* For the runs in which no main() of ec_fan_control*.py takes part.
NoEc ==
    /\ fds = {0, 1, 2}
    /\ port_fds = {}
    /\ port_file = None
    /\ mpc = "exit"
    /\ ec_call = NoCall
    /\ ec_prev = NoCall

----------------------------------------------------------------------------
ProbeFresh ==
    /\ bk_addr = None
    /\ backup = <<>>
    /\ backup_failed = FALSE
    /\ addr = None
    /\ di = 0
    /\ baseline_speeds = Unset
    /\ current_speeds = Unset
    /\ final_speeds = Unset
    /\ hits = <<>>
    /\ discovered_fans = <<>>
    /\ attempted = {}
    /\ written = {}
    /\ dev_opens = {}
    /\ last_write = NoWrite
    /\ waited = None
    /\ tried = {}
    /\ not_reversible = {}

\* watcher = ECPokeWatcher(): the constructor is about to run.
ProbeInit ==
    /\ pc = "backup_open"
    /\ ProbeFresh

\* Free hardware: any small range, any stride, a prefix of the script's ladder;
\* the device has one address beyond the largest range, and its even and its odd
\* addresses each hold one of the original bytes.
FreeConfig ==
    /\ shifted = FALSE
    /\ ec_start \in 0 .. 1
    /\ ec_end \in 0 .. MaxAddr
    /\ stride \in 1 .. MaxStride
    /\ duty_cycles = SubSeq(DefaultDuties, 1, MaxDuties)
    /\ \E even \in OrigBytes, odd \in OrigBytes :
         port = [a \in 0 .. MaxAddr + 1 |-> IF a % 2 = 0 THEN even ELSE odd]
    /\ orig = port
    /\ GuiInit(NoHwmon)
    /\ NoEc

Init ==
    /\ hw = "any"
    /\ FreeConfig
    /\ ProbeInit

Next == ProbeStep

\* The script run from its __main__ block, on a machine where /dev/port may be
\* out of reach of the process.
InitMain ==
    /\ hw \in {"any", "denied"}
    /\ FreeConfig
    /\ pc = "main"
    /\ ProbeFresh

SpecMain == InitMain /\ [][ProbeMain \/ ProbeStep]_vars

Spec == Init /\ [][Next]_vars

\* The script is sequential and every wait in it is a finite sleep: a session that
\* can take a step takes one.
SpecLive == Init /\ [][Next]_vars /\ WF_vars(Next)

\* The same session with an operator who may press Ctrl-C.
SpecCancel == Init /\ [][Next \/ Interrupt]_vars

\* The concrete scenario: range [0x20, 0x2C], stride 4, ladder [0x40, 0x80, 0xFF],
\* on the simulated bench; the bytes on the probed registers are arbitrary.
InitScenario ==
    /\ hw = "sim"
    /\ shifted = FALSE
    /\ ec_start = Scenario.ec_start
    /\ ec_end = Scenario.ec_end
    /\ stride = Scenario.stride
    /\ duty_cycles = Scenario.duty_cycles
    /\ \E f \in [RangeFrom(Scenario.ec_start, Scenario.ec_end, Scenario.stride)
                   -> OrigBytes] :
         port = [a \in BenchPorts |-> IF a \in DOMAIN f THEN f[a] ELSE NEUTRAL]
    /\ orig = port
    /\ GuiInit(NoHwmon)
    /\ NoEc
    /\ ProbeInit

SpecScenario == InitScenario /\ [][ProbeStep]_vars

\* The probe on the bench while the enhanced GUI runs on the same machine: its
\* EC accessors go to the same /dev/port through dd, whenever the user asks.
SpecShared == InitScenario /\ [][ProbeStep \/ SetEcFanPwm \/ GetEcFanPwms]_vars

\* The GUI controller alone, on any of the sysfs trees; no probe is running.
InitGui ==
    /\ hw = "any"
    /\ shifted = FALSE
    /\ ec_start = Scenario.ec_start
    /\ ec_end = Scenario.ec_end
    /\ stride = Scenario.stride
    /\ duty_cycles = Scenario.duty_cycles
    /\ port = [a \in BenchPorts |-> NEUTRAL]
    /\ orig = port
    /\ \E tree \in HwmonTrees : GuiInit(tree)
    /\ NoEc
    /\ ProbeInit

GuiStep ==
    \/ SetPwm
    \/ SetAllPwm
    \/ GetFanSpeeds
    \/ GetTemperatures
    \/ GetPwmValues

SpecGui == InitGui /\ [][GuiStep]_vars

\* The batch setters of the three GUI programs, called again and again.
SpecSetAll == InitGui /\ [][SetAllPwm \/ SetAllPwmEnhanced]_vars

\* A session of main() of ec_fan_control*.py, on real hardware or on a simulated
\* port, with the probe's per-call accessors used beside it.
InitEc ==
    /\ hw \in {"any", "sim"}
    /\ shifted = FALSE
    /\ ec_start = Scenario.ec_start
    /\ ec_end = Scenario.ec_end
    /\ stride = Scenario.stride
    /\ duty_cycles = Scenario.duty_cycles
    /\ port = [a \in SessionPorts |-> NEUTRAL]
    /\ orig = port
    /\ GuiInit(NoHwmon)
    /\ EcInit
    /\ ProbeInit

EcStep ==
    \/ MainOpen
    \/ ReadPort
    \/ WritePort
    \/ MainLeave
    \/ MainFinally
    \/ RegWrite
    \/ RegRead

SpecEc == InitEc /\ [][EcStep]_vars

\* An ECAccess object whose four methods are called in any order.
InitAccess ==
    /\ hw \in {"any", "sim"}
    /\ shifted = FALSE
    /\ ec_start = Scenario.ec_start
    /\ ec_end = Scenario.ec_end
    /\ stride = Scenario.stride
    /\ duty_cycles = Scenario.duty_cycles
    /\ port = [a \in SessionPorts |-> NEUTRAL]
    /\ orig = port
    /\ GuiInit(NoHwmon)
    /\ fds \in {{0, 1, 2}, {1, 2}}
    /\ port_fds = {}
    /\ port_file = None
    /\ mpc = "session"
    /\ ec_call = NoCall
    /\ ec_prev = NoCall
    /\ ProbeInit

AccessStep ==
    \/ OpenPort
    \/ ClosePort
    \/ ReadPort
    \/ WritePort

SpecAccess == InitAccess /\ [][AccessStep]_vars

\* The application window on a machine whose hwmon devices come and go.
InitApp ==
    /\ hw = "any"
    /\ shifted = FALSE
    /\ ec_start = Scenario.ec_start
    /\ ec_end = Scenario.ec_end
    /\ stride = Scenario.stride
    /\ duty_cycles = Scenario.duty_cycles
    /\ port = [a \in BenchPorts |-> NEUTRAL]
    /\ orig = port
    /\ \E tree \in AppTrees :
         /\ hwmon = tree
         /\ fan_devices = DiscoverFanDevices(tree)
         /\ temp_devices = DiscoverTempDevices(tree)
         /\ pwm_val = [c \in PwmFiles(tree) |-> 0]
    /\ gui_call = NoCall
    /\ gui_accesses = 0
    /\ AppInit
    /\ NoEc
    /\ ProbeInit

SpecApp == InitApp /\ [][AppStep]_vars

\* The monitor is a thread of its own and its sleep is finite; a wait() whose
\* thread has finished returns.
SpecAppLive ==
    InitApp /\ [][AppStep]_vars /\ WF_vars(MonitorStep) /\ WF_vars(WaitReturns)

\* A session of main() in which the controller talks to the EC through the
\* command/data protocol on both port pairs.
InitProto ==
    /\ hw = "any"
    /\ shifted = FALSE
    /\ ec_start = Scenario.ec_start
    /\ ec_end = Scenario.ec_end
    /\ stride = Scenario.stride
    /\ duty_cycles = Scenario.duty_cycles
    /\ port = [a \in ProtoPorts |-> NEUTRAL]
    /\ orig = port
    /\ GuiInit(NoHwmon)
    /\ EcInit
    /\ ProbeInit

\* A session of main() of ec_fan_control_enhanced.py on the registers of regs_02.
InitRegTest ==
    /\ hw = "any"
    /\ shifted = FALSE
    /\ ec_start = Scenario.ec_start
    /\ ec_end = Scenario.ec_end
    /\ stride = Scenario.stride
    /\ duty_cycles = Scenario.duty_cycles
    /\ port = [a \in TestRegs |-> PATTERN_BYTE]
    /\ orig = port
    /\ GuiInit(NoHwmon)
    /\ EcInit
    /\ ProbeInit

RegTestStep ==
    \/ MainOpen
    \/ TestRegisterFanControl
    \/ RegisterStep
    \/ RegisterRestore
    \/ FindFanPatterns
    \/ PatternRead
    \/ PatternStep
    \/ PatternRestore
    \/ QuitSession
    \/ MainFinally

SpecRegTest == InitRegTest /\ [][RegTestStep]_vars

ProtoStep ==
    \/ MainOpen
    \/ EcRead
    \/ EcWrite
    \/ SmmRead
    \/ SmmWrite
    \/ SetFanSpeed
    \/ MainLeave
    \/ MainFinally

SpecProto == InitProto /\ [][ProtoStep]_vars

----------------------------------------------------------------------------
\* The session has ended: run_discovery returned, or Ctrl-C ended the script.
SessionEnded == pc \in {"done", "interrupted"}
EmptyRange == ec_start > ec_end

\* C1: once the session has completed or was cancelled, every address of the scan
\* range holds the byte it held before the scan.
C1_FinalEqualsBackup ==
    SessionEnded => \A a \in ec_start .. ec_end : port[a] = orig[a]

\* C2: every address the probe has written has a byte in the backup that was read
\* and persisted before the first write of the session.
C2_NoWriteBeforeBackup == written \subseteq BackedUp

\* C3: when the backup snapshot could not be read completely, the session is
\* aborted and no write to any EC address is attempted.
C3_BackupFailureAborts == backup_failed => attempted = {}

\* C4: a hit A:D is appended only when the RPM vector read after writing D to A
\* differed from the baseline and the RPM vector read after the reversal write
\* equalled the baseline.
C4_ConfirmedImpliesChangedAndReverted ==
    [][hits' # hits =>
         /\ hits' = Append(hits, <<addr, duty_cycles[di]>>)
         /\ port[addr] \in {duty_cycles[di], NEUTRAL}
         /\ current_speeds # baseline_speeds
         /\ final_speeds = baseline_speeds]_vars

C4_Witness ==
    /\ pc = "loop"
    /\ hits # <<>>
    /\ current_speeds \notin {Unset, baseline_speeds}
    /\ final_speeds = baseline_speeds

\* C5: set_pwm rejects any pwm_value outside [0,255]: the call reports failure
\* and nothing is written to the pwm file.
C5_SetPwmRejectsOutOfRange ==
    (gui_call.op = "set_pwm" /\ gui_call.pwm_value \notin PwmRange)
        => (~gui_call.ret /\ ~gui_call.wrote)

\* C6: while the probe session runs, no other component accesses the raw port
\* device.
C6_ExclusivePortAccess == [][ProbeRunning => gui_accesses' = gui_accesses]_vars

\* C7: once main() has opened the port device, no execution ends with the handle
\* still open.
C7_PortReleasedOnExit == mpc = "exit" => port_fds = {}

\* C8: the concrete scenario ends with a hits record of exactly one entry, 0x24:0x80.
C8_ScenarioHits == pc = "done" => hits = <<(<<36, 128>>)>>

C8_Witness == pc = "done" /\ hw = "sim" /\ ec_start = 32 /\ Len(hits) = 1

\* C9 as stated: over an empty range there are no hits and no writes, and the port
\* device is not opened at all.
C9_EmptyRangeNeverOpens ==
    EmptyRange => (hits = <<>> /\ attempted = {} /\ dev_opens = {})

\* C9 as amended: over an empty range there are no hits and no writes, and the only
\* operation that opens the port device is the constructor's backup; the session
\* itself opens nothing and ends whether or not that open succeeded.
C9_EmptyRangeOnlyBackupOpens ==
    EmptyRange =>
        /\ hits = <<>> /\ discovered_fans = <<>>
        /\ attempted = {} /\ written = {} /\ port = orig
        /\ dev_opens \subseteq {"backup"}
        /\ pc # "backup_open" => dev_opens = {"backup"}
        /\ pc \notin {"duty", "observe", "reverse", "reobserve", "confirmed", "restore"}

C9_Witness == EmptyRange /\ pc = "done" /\ backup_failed /\ dev_opens = {"backup"}

\* C10: against a simulated port, a byte written to an address (the write call
\* reporting success) and read back at once is the byte returned, for
\* write_ec_reg/read_ec_reg and for write_port/read_port.
RoundTrip(w, r) ==
    (/\ hw = "sim"
     /\ ec_prev.op = w /\ ec_prev.ret = TRUE
     /\ ec_call.op = r /\ ec_call.port = ec_prev.port)
        => ec_call.ret = ec_prev.value

C10_RoundTrip ==
    /\ RoundTrip("write_ec_reg", "read_ec_reg")
    /\ RoundTrip("write_port", "read_port")

C10_Witness ==
    /\ hw = "sim"
    /\ ec_prev.op = "write_port" /\ ec_prev.ret = TRUE /\ ec_prev.value = 255
    /\ ec_call.op = "read_port" /\ ec_call.port = ec_prev.port /\ ec_call.ret = 255

\* C11: set_all_pwm attempts a write on every PWM channel of the registry (and,
\* in the enhanced controller, on every EC fan register), whatever failed before.
C11_SetAllAttemptsEveryChannel ==
    gui_call.op = "set_all_pwm" =>
        gui_call.attempts =
            PwmChannels(fan_devices)
            \cup (IF gui_call.gui = "enhanced"
                  THEN {EcChannel(x) : x \in ec_fan_registers} ELSE {})

C11_Witness ==
    /\ gui_call.op = "set_all_pwm" /\ gui_call.gui = "enhanced"
    /\ gui_call.failed = {<<"hwmon0", "1">>, EcChannel("24")}
    /\ {<<"hwmon1", "1">>, EcChannel("3C")} \subseteq gui_call.attempts

\* C12: what the caller of set_all_pwm receives identifies the channels that
\* failed: two calls with the same arguments that return the same thing failed
\* on the same channels.
C12_ReturnIdentifiesFailures ==
    [][(/\ gui_call.op = "set_all_pwm" /\ gui_call'.op = "set_all_pwm"
        /\ gui_call'.gui = gui_call.gui
        /\ gui_call'.pwm_value = gui_call.pwm_value
        /\ gui_call'.ret = gui_call.ret)
          => gui_call'.failed = gui_call.failed]_vars

\* C13: get_fan_speeds and get_temperatures return an entry for every channel of
\* the registry; a channel whose read failed is reported as zero and every other
\* channel as the value its file holds.
C13_ReadersReportEveryChannel ==
    /\ gui_call.op = "get_fan_speeds" =>
         /\ DOMAIN gui_call.ret = DOMAIN fan_devices
         /\ \A h \in DOMAIN fan_devices :
              /\ DOMAIN gui_call.ret[h] = fan_devices[h].fan_inputs
              /\ \A k \in fan_devices[h].fan_inputs :
                   gui_call.ret[h][k] =
                       IF <<h, k>> \in gui_call.failed
                       THEN 0 ELSE gui_call.value[<<h, k>>]
    /\ gui_call.op = "get_temperatures" =>
         /\ DOMAIN gui_call.ret = DOMAIN temp_devices
         /\ \A h \in DOMAIN temp_devices :
              /\ DOMAIN gui_call.ret[h] = temp_devices[h].temp_inputs
              /\ \A k \in temp_devices[h].temp_inputs :
                   gui_call.ret[h][k] =
                       IF <<h, k>> \in gui_call.failed
                       THEN [deg |-> 0, milli |-> 0]
                       ELSE Celsius(gui_call.value[<<h, k>>])

C13_Witness ==
    /\ gui_call.op = "get_fan_speeds"
    /\ gui_call.failed = {<<"hwmon0", "1">>}
    /\ gui_call.value = [c \in {"hwmon0", "hwmon1"} \X {"1"} |-> 1]
    /\ gui_call.ret["hwmon0"]["1"] = 0
    /\ gui_call.ret["hwmon1"]["1"] = 1

C15_HitsAppendOnly ==
    /\ [](/\ Len(hits) = Len(discovered_fans)
          /\ \A i \in 1 .. Len(hits) :
               /\ hits[i][1] = discovered_fans[i]
               /\ hits[i][2] \in {duty_cycles[j] : j \in 1 .. Len(duty_cycles)}
               /\ \A j \in 1 .. Len(hits) : hits[j][1] = hits[i][1] => j = i)
    /\ [][hits' # hits =>
            /\ pc = "confirmed"
            /\ hits' = Append(hits, <<addr, duty_cycles[di]>>)
            /\ port[addr] \in {duty_cycles[di], NEUTRAL}]_vars

C15_Witness ==
    /\ pc = "done" /\ Len(hits) = 2
    /\ hits[1][1] < hits[2][1] /\ hits[1][2] # hits[2][2]

\* C16: a cancelled run never leaves an address of the range holding a test duty
\* value.
C16_CancelLeavesNoDuty ==
    pc = "interrupted" =>
        \A a \in ScanAddrs : port[a] \notin {duty_cycles[j] : j \in 1 .. Len(duty_cycles)}

\* C17: once the RPM changed after a duty write to an address and did not return
\* to the baseline after the reversal write, no further duty is written to that
\* address.
C17_NoDutyAfterIrreversible ==
    [][(/\ pc = "duty"
        /\ final_speeds # Unset /\ final_speeds # baseline_speeds)
          => pc' # "observe"]_vars

\* C18: no duty is written, or attempted, on an address that has an entry in the
\* hits record.
C18_NoDutyAfterConfirmed ==
    [][(pc = "duty" /\ di <= Len(duty_cycles) /\ pc' \in {"observe", "duty"})
          => \A i \in 1 .. Len(hits) : hits[i][1] # addr]_vars

C18_Witness ==
    /\ pc = "loop" /\ Len(hits) = 1 /\ Len(duty_cycles) > 1
    /\ hits[1] = <<addr - stride, duty_cycles[1]>>
    /\ InRange(addr)

\* C19: before each duty write and before the next address is taken, every
\* address of the range holds the byte it held before the scan.
C19_RestoredBetweenSteps ==
    pc \in {"loop", "duty"} => \A a \in ScanAddrs : port[a] = orig[a]

\* C20: only the addresses start, start+stride, ... <= end are ever written or
\* attempted; every other address keeps its byte in every step.
C20_OnlyStridedAddresses ==
    /\ [](attempted \subseteq ScanAddrs /\ written \subseteq ScanAddrs)
    /\ [][\A a \in DOMAIN port : port'[a] # port[a] => a \in ScanAddrs]_vars

C20_Witness ==
    /\ pc = "done" /\ stride = 2 /\ ec_start = 0 /\ ec_end = 1
    /\ written = {0} /\ port[0] # orig[0]
    /\ port[1] = orig[1] /\ port[2] = orig[2]

\* The ladder as a set, and a step of test_register that attempts a duty write.
Duties == {duty_cycles[j] : j \in 1 .. Len(duty_cycles)}
DutyWriteDue == pc = "duty" /\ di <= Len(duty_cycles)
Returning == pc \in {"duty", "confirmed"} /\ pc' = "loop"

\* C21: after an address was found not reversible the session goes on: it reaches
\* its end, and by then every strided address of the range has been probed.
C21_SessionSurvivesIrreversible ==
    (pc = "restore" /\ addr \in not_reversible)
        ~> (pc = "done" /\ attempted = ScanAddrs
            /\ \A a \in ScanAddrs : \E d \in Duties : <<a, d>> \in tried)

C21_Witness ==
    /\ pc = "done" /\ not_reversible = {ec_start} /\ Cardinality(ScanAddrs) = 2
    /\ \A a \in ScanAddrs : <<a, duty_cycles[1]>> \in tried

\* C22: the baseline of an address is read before the first write to it; the
\* reading after a duty write is taken after that write and the settle wait; the
\* reading after the reversal is taken after the reversal write and the longer
\* reversal wait.
C22_ReadingsOrdered ==
    /\ [](pc \in {"duty", "observe", "reverse", "reobserve", "confirmed", "restore"}
            => baseline_speeds # Unset)
    /\ [][(pc = "loop" /\ pc' = "duty")
            => (addr \notin attempted /\ last_write = NoWrite
                /\ attempted' = attempted /\ port' = port)]_vars
    /\ [][(pc = "observe" /\ pc' \in {"reverse", "restore"})
            => (/\ last_write = [value |-> duty_cycles[di], ret |-> TRUE]
                /\ port' = port /\ last_write' = last_write
                /\ waited' - waited >= SETTLE_WAIT)]_vars
    /\ [][(pc = "reobserve" /\ pc' \in {"confirmed", "restore"})
            => (/\ last_write.value = NEUTRAL
                /\ port' = port /\ last_write' = last_write
                /\ waited' - waited >= REVERSAL_WAIT
                /\ REVERSAL_WAIT > SETTLE_WAIT)]_vars

C22_Witness ==
    /\ pc = "confirmed" /\ waited = REVERSAL_WAIT
    /\ last_write = [value |-> NEUTRAL, ret |-> TRUE]
    /\ current_speeds # baseline_speeds /\ final_speeds = baseline_speeds

\* C23: an address the log reports as not reversible is never recorded as
\* confirmed.
C23_OneVerdictPerAddress ==
    \A i \in 1 .. Len(hits) : hits[i][1] \notin not_reversible

\* C25: no (address, duty) write is attempted twice, and a failed duty write
\* skips its step: no wait, no reading, no verdict, the next duty is taken.
C25_NoRetry ==
    /\ [][DutyWriteDue => <<addr, duty_cycles[di]>> \notin tried]_vars
    /\ [][(DutyWriteDue /\ ~last_write'.ret)
            => (/\ pc' = "duty" /\ di' = di + 1 /\ addr' = addr
                /\ port' = port /\ waited' = 0
                /\ current_speeds' = current_speeds
                /\ final_speeds' = final_speeds
                /\ hits' = hits /\ not_reversible' = not_reversible)]_vars

C25_Witness ==
    /\ pc = "duty" /\ di = 2 /\ waited = 0
    /\ last_write = [value |-> duty_cycles[1], ret |-> FALSE]
    /\ tried = {<<addr, duty_cycles[1]>>}
    /\ port = orig /\ current_speeds = Unset /\ final_speeds = Unset

\* C29 as stated: when test_register returns after a successful write to the
\* address, the last value it attempted to write is 0x00.
C29_LastAttemptNeutral ==
    [][(Returning /\ addr \in written) => last_write.value = NEUTRAL]_vars

\* C29 as amended: when test_register returns, the last write it attempted was of
\* 0x00 unless it was a duty write that failed; and the write attempted after a
\* duty write that succeeded is always of 0x00.
C29_NeutralFollowsEveryDuty ==
    /\ [][Returning => (last_write.value = NEUTRAL \/ ~last_write.ret)]_vars
    /\ [][(last_write.ret /\ last_write.value # NEUTRAL /\ last_write' # last_write)
            => last_write'.value = NEUTRAL]_vars
    /\ [](pc \in {"loop", "done"} => last_write = NoWrite)
    /\ [](pc = "observe" => (last_write.ret /\ last_write.value = duty_cycles[di]))

C29_Witness ==
    /\ pc = "duty" /\ di > Len(duty_cycles)
    /\ addr \in written /\ baseline_speeds # Unset
    /\ last_write = [value |-> duty_cycles[Len(duty_cycles)], ret |-> FALSE]

\* C30: a hit is appended only when the reversal write of 0x00 succeeded.
C30_ConfirmedNeedsReversalWritten ==
    [][hits' # hits => last_write = [value |-> NEUTRAL, ret |-> TRUE]]_vars

\* C24: in ec_read, ec_write, smm_read and smm_write the data port is accessed
\* only after the command byte was written to the command port and the wait has
\* passed; when the command write fails the data port is not accessed and the
\* operation reports failure.
ProtoOps == {"ec_read", "ec_write", "smm_read", "smm_write"}
ProtoFamily(op) == IF op \in {"ec_read", "ec_write"} THEN "ec" ELSE "smm"
C24_CommandBeforeData ==
    ec_call.op \in ProtoOps =>
        LET st == ec_call.steps
            cmd == CommandPort(ProtoFamily(ec_call.op))
            data == DataPort(ProtoFamily(ec_call.op))
            commanded == Len(st) > 0 /\ st[1].done
        IN  /\ \A i \in 1 .. Len(st) :
                 st[i].port = data =>
                     /\ i = 3
                     /\ st[1] = [kind |-> "write", port |-> cmd,
                                 value |-> ec_call.command, done |-> TRUE]
                     /\ st[2].kind = "sleep" /\ st[2].value >= PROTOCOL_WAIT_MS
            /\ commanded => (Len(st) = 3 /\ st[3].port = data)
            /\ ~commanded =>
                 /\ Len(st) <= 1
                 /\ ec_call.ret = (IF ec_call.op \in {"ec_read", "smm_read"}
                                   THEN None ELSE FALSE)

C24_Witness ==
    /\ ec_call.op = "smm_write" /\ ec_call.ret = TRUE /\ Len(ec_call.steps) = 3
    /\ port[ec_ports.smm_command] = 48 /\ port[ec_ports.smm_data] = 255
    /\ ec_prev.op = "ec_read" /\ Len(ec_prev.steps) = 1 /\ ec_prev.ret = None

\* C26: the flag set_all_pwm returns is true exactly when the write succeeded on
\* every PWM channel of the registry (and, in the enhanced controller, on every
\* EC fan register); with no such channel it is true.
SetAllChannels ==
    PwmChannels(fan_devices)
        \cup (IF gui_call.gui = "enhanced"
              THEN {EcChannel(x) : x \in ec_fan_registers} ELSE {})
C26_FlagIsConjunction ==
    gui_call.op = "set_all_pwm" =>
        /\ gui_call.ret <=>
               \A c \in SetAllChannels : c \in gui_call.attempts \ gui_call.failed
        /\ gui_call.ret =>
               \A c \in PwmChannels(fan_devices) : pwm_val[c] = gui_call.pwm_value
        /\ SetAllChannels = {} => gui_call.ret

C26_Witness ==
    /\ gui_call.op = "set_all_pwm" /\ gui_call.gui = "enhanced"
    /\ Cardinality(PwmChannels(fan_devices)) = 2
    /\ gui_call.attempts = SetAllChannels
    /\ gui_call.failed = {EcChannel("24")}
    /\ gui_call.ret = FALSE
    /\ \A c \in PwmChannels(fan_devices) : pwm_val[c] = 255

\* The batch on a machine with no controllable fan: nothing to write, flag true.
C26_WitnessEmpty ==
    /\ gui_call.op = "set_all_pwm" /\ gui_call.gui = "basic"
    /\ fan_devices = DiscoverFanDevices(hwmon) /\ PwmChannels(fan_devices) = {}
    /\ gui_call.attempts = {} /\ gui_call.ret = TRUE

\* C27: a hwmon device with no fan channel is not in the fan registry, one with
\* no temperature channel is not in the temperature registry, and a device with
\* neither has no entry in what get_fan_speeds, get_temperatures and
\* get_pwm_values return.
ReadOps == {"get_fan_speeds", "get_temperatures", "get_pwm_values"}
C27_EmptyDevicesOmitted ==
    \A h \in DOMAIN hwmon :
        /\ hwmon[h].fans = {} => h \notin DOMAIN fan_devices
        /\ hwmon[h].temps = {} => h \notin DOMAIN temp_devices
        /\ (hwmon[h].fans = {} /\ hwmon[h].temps = {} /\ gui_call.op \in ReadOps)
               => h \notin DOMAIN gui_call.ret

C27_Witness ==
    /\ hwmon["hwmon0"] = [fans |-> {}, pwms |-> {"1"}, temps |-> {}]
    /\ hwmon["hwmon1"] = [fans |-> {"1"}, pwms |-> {"1"}, temps |-> {}]
    /\ DOMAIN fan_devices = {"hwmon1"} /\ DOMAIN temp_devices = {}
    /\ gui_call.op = "get_pwm_values" /\ DOMAIN gui_call.ret = {"hwmon1"}

\* C28: in every registry device the PWM-controllable channels are among its fan
\* channels; set_pwm for a device that is not in the registry, or for a channel
\* that is not PWM-controllable, returns False and writes nothing; a set_pwm
\* call changes no pwm file but that of its own (device, channel) pair, which is
\* then a PWM-controllable channel of the registry.
C28_WritesOnlyControllable ==
    /\ [](/\ \A h \in DOMAIN fan_devices :
               fan_devices[h].fan_pwms \subseteq fan_devices[h].fan_inputs
          /\ (/\ gui_call.op = "set_pwm"
              /\ <<gui_call.hwmon_name, gui_call.fan_num>>
                     \notin PwmChannels(fan_devices))
                 => (~gui_call.ret /\ ~gui_call.wrote))
    /\ [][gui_call'.op = "set_pwm" =>
            \A c \in DOMAIN pwm_val :
                pwm_val'[c] # pwm_val[c] =>
                    /\ c = <<gui_call'.hwmon_name, gui_call'.fan_num>>
                    /\ c \in PwmChannels(fan_devices)
                    /\ c[2] \in fan_devices[c[1]].fan_inputs]_vars

C28_Witness ==
    /\ hwmon["hwmon0"] = [fans |-> {"1"}, pwms |-> {}, temps |-> {}]
    /\ hwmon["hwmon1"] = [fans |-> {}, pwms |-> {"1"}, temps |-> {}]
    /\ gui_call.op = "set_pwm" /\ gui_call.hwmon_name = "hwmon1"
    /\ gui_call.fan_num = "1" /\ gui_call.pwm_value = 255
    /\ gui_call.ret = FALSE /\ gui_call.wrote = FALSE
    /\ pwm_val[<<"hwmon1", "1">>] = 0

\* C31: the list run_discovery returns holds exactly the addresses of the hits
\* appended during the session, in ascending order, each once.
C31_ReturnsTheHits ==
    pc = "done" =>
        /\ Len(discovered_fans) = Len(hits)
        /\ \A i \in 1 .. Len(hits) : discovered_fans[i] = hits[i][1]
        /\ \A i, j \in 1 .. Len(discovered_fans) :
               i < j => discovered_fans[i] < discovered_fans[j]

\* Two addresses probed, the first without a hit, the second confirmed.
C31_Witness ==
    /\ pc = "done" /\ Cardinality(ScanAddrs) = 2
    /\ Len(hits) = 1 /\ hits[1][1] = ec_start + stride
    /\ discovered_fans = <<ec_start + stride>>
    /\ ec_start \in attempted

\* C32: with a stride of at least 1 run_discovery ends; test_register is entered
\* on the strided addresses only, in ascending order and once each, so that at
\* the end each of them was probed; at an address every duty write is that of
\* the next ladder entry, the entries before it having been written once each.
TriedAt(a) == {d \in Duties : <<a, d>> \in tried}
LadderPrefix(n) == {duty_cycles[j] : j \in 1 .. n}
C32_DiscoveryTerminates ==
    /\ <>(pc = "done")
    /\ [](stride >= 1)
    /\ [](pc = "done" =>
            /\ attempted = ScanAddrs
            /\ \A a \in ScanAddrs :
                 \E n \in 1 .. Len(duty_cycles) : TriedAt(a) = LadderPrefix(n))
    /\ [][(pc = "loop" /\ pc' = "duty") =>
            /\ addr \in ScanAddrs
            /\ \A a \in ScanAddrs : a \in attempted <=> a < addr]_vars
    /\ [][DutyWriteDue =>
            /\ TriedAt(addr) = LadderPrefix(di - 1)
            /\ tried' = tried \cup {<<addr, duty_cycles[di]>>}]_vars

C32_Witness ==
    /\ pc = "done" /\ stride = 2 /\ ec_start = 0 /\ ec_end = 1
    /\ attempted = {0} /\ TriedAt(0) = Duties /\ Len(hits) = 0
    /\ last_write = NoWrite

\* C33: after test_register_fan_control on a register whose initial read
\* returned a byte and whose writes all returned True, the last value written to
\* the register is that byte and no other port was written; after
\* find_fan_patterns, every tested register was rewritten with the byte read
\* before its test.
TestEnded(op) == ec_call.op = op /\ ec_call.phase = "ended"
C33_TestedRegisterRestored ==
    /\ (/\ TestEnded("test_register_fan_control")
        /\ ec_call.current # None /\ ~ec_call.write_failed)
           => (/\ ec_call.last_written = ec_call.current
               /\ ec_call.ports_written = {ec_call.register}
               /\ port[ec_call.register] = ec_call.current)
    /\ (TestEnded("find_fan_patterns") /\ ec_call.unread = {}
                                       /\ ~ec_call.write_failed)
           => ec_call.restored = ec_call.tested

\* C34: once refresh_devices has made a new controller, every poll of the
\* monitor and every preset or PWM write uses that controller's registry.
C34_RefreshedRegistryUsed ==
    app_call.op \in {"poll", "apply_preset", "set_pwm"} =>
        controllers[app_call.used] = controllers[app_call.window]

\* C35: after stop() the monitor loop emits at most one more data update and
\* then ends, so that the wait in closeEvent returns.
C35_MonitorStops ==
    /\ [](emitted <= 1)
    /\ [](win_pc = "closed" => mon_pc = "finished")
    /\ (win_pc = "closing") ~> (win_pc = "closed" /\ mon_pc = "finished")

C35_Witness ==
    /\ toolkit = "qt" /\ win_pc = "closed" /\ mon_pc = "finished"
    /\ ~running /\ emitted = 1 /\ app_call.op = "poll"

\* C36: set_fan_speed writes to the EC data port only a value in 0..255, the
\* requested pwm brought into that range; a request outside the range is not
\* refused: the call returns what the write of the clamped value returns.
C36_SpeedClamped ==
    (ec_call.op = "set_fan_speed" /\ ec_call.fan_id \in DOMAIN fan_commands) =>
        LET st == ec_call.steps
            want == IF ec_call.pwm_value < 0 THEN 0
                    ELSE IF ec_call.pwm_value > 255 THEN 255
                    ELSE ec_call.pwm_value
        IN  /\ \A i \in 1 .. Len(st) :
                 st[i].port = ec_ports.data =>
                     (st[i].kind = "write" /\ st[i].value = want
                      /\ st[i].value \in 0 .. 255)
            /\ port[ec_ports.data] \in 0 .. 255
            /\ ec_call.ret <=> (Len(st) = 3 /\ st[3].done)
            /\ ec_call.ret => port[ec_ports.data] = want

C36_Witness ==
    /\ ec_call.op = "set_fan_speed" /\ ec_call.fan_id = "fan2"
    /\ ec_call.pwm_value = 1000 /\ ec_call.ret = TRUE
    /\ port[ec_ports.data] = 255 /\ port[ec_ports.command] = 49
    /\ ec_prev.op = "set_fan_speed" /\ ec_prev.pwm_value = -1 /\ ec_prev.ret = TRUE
    /\ ec_prev.value = 0

\* C37: the descriptors on /dev/port that an ECAccess has opened and not closed
\* are none but the one it has stored; close_port on a closed object changes
\* nothing.
C37_OneDescriptor ==
    /\ [](port_fds \subseteq {port_file})
    /\ [][(ec_call'.op = "close_port" /\ ec_call.op = "close_port")
            => UNCHANGED <<fds, port_fds, port_file>>]_vars

\* C38: while the object holds the descriptor open_port stored, whatever its
\* number, read_port returns the byte of the port and write_port puts the byte
\* on it, and close_port closes that descriptor and forgets it.
C38_AnyDescriptorWorks ==
    /\ []((hw = "sim" /\ ec_call.op = "read_port" /\ ec_call.held # None)
             => ec_call.ret = port[ec_call.port])
    /\ []((hw = "sim" /\ ec_call.op = "write_port" /\ ec_call.held # None)
             => ec_call.ret = TRUE)
    /\ [][(ec_call'.op = "close_port" /\ ec_call'.held # None)
            => (port_file' = None /\ ec_call'.held \notin fds')]_vars

====
